---------------------------- MODULE Spec2Model ----------------------------
(***************************************************************************)
(* Model of the weather backend (src/app.py): the health operation `home`  *)
(* and the weather-lookup operation `get_weather`, with the weather        *)
(* provider and the process environment as the nondeterministic inputs.    *)
(*                                                                         *)
(* Representation.                                                        *)
(*  - A Python str that the code transforms (the city key, a display name, *)
(*    a description) is a sequence of one-character strings, so that       *)
(*    lower() and capitalize() are computed character by character.       *)
(*  - A Python/JSON value is a tagged record [t, v]:                       *)
(*      t = "none"   None / JSON null                                      *)
(*      t = "str"    v = sequence of characters                            *)
(*      t = "int"    v = the integer                                       *)
(*      t = "float"  v = the value in hundredths (15.04 is 1504)           *)
(*      t = "list"   v = sequence of values                                *)
(*      t = "dict"   v = function from key (a TLA+ string) to value        *)
(*  - The result of evaluating a Python expression is [v, ok |-> TRUE] or  *)
(*    [ok |-> FALSE, exc], exc the class of the exception raised.          *)
(*  - Record fields are written in the order in which TLC keeps them.      *)
(***************************************************************************)
EXTENDS Integers, Sequences, FiniteSets, TLC

VARIABLES
    API_KEY,     \* module global read from the environment at startup
    pc,          \* position of the request handler: idle, calling, done
    route,       \* the route of the request being handled
    city,        \* the <city> path argument of the request being handled
    city_name,   \* the handler's local city_name
    outbound,    \* the provider calls issued for the request being handled
    upstream,    \* what the provider call produced
    responses    \* the responses produced for the request being handled

vars == <<API_KEY, pc, route, city, city_name, outbound, upstream, responses>>

-----------------------------------------------------------------------------
(* Bounds of the explored inputs. *)

\* city keys are tried in every casing with at most MaxUpper upper-case letters
MaxUpper == 1
\* provider descriptions are all strings over DescAlphabet up to this length
MaxDescLen == 2
\* provider temperatures range over -MaxHundredths..MaxHundredths hundredths
MaxHundredths == 100

-----------------------------------------------------------------------------
(* Python values. *)

PyNone == [t |-> "none", v |-> 0]
PyStr(s) == [t |-> "str", v |-> s]
PyInt(n) == [t |-> "int", v |-> n]
PyFloat(h) == [t |-> "float", v |-> h]
PyList(s) == [t |-> "list", v |-> s]
PyDict(f) == [t |-> "dict", v |-> f]

Ok(x) == [v |-> x, ok |-> TRUE]
Raise(e) == [ok |-> FALSE, exc |-> e]

Abs(n) == IF n < 0 THEN -n ELSE n

-----------------------------------------------------------------------------
(* str.lower and str.capitalize *)

LowerLetters ==
    << "a", "b", "c", "d", "e", "f", "g", "h", "i", "j", "k", "l", "m",
       "n", "o", "p", "q", "r", "s", "t", "u", "v", "w", "x", "y", "z" >>

UpperLetters ==
    << "A", "B", "C", "D", "E", "F", "G", "H", "I", "J", "K", "L", "M",
       "N", "O", "P", "Q", "R", "S", "T", "U", "V", "W", "X", "Y", "Z" >>

\* U+212A KELVIN SIGN, an upper-case character whose lower-case form is "k"
KelvinSign == "U+212A"

IsUpper(c) == c = KelvinSign \/ \E i \in 1..26 : UpperLetters[i] = c
IsLower(c) == \E i \in 1..26 : LowerLetters[i] = c

CharLower(c) ==
    IF c = KelvinSign THEN "k"
    ELSE IF \E i \in 1..26 : UpperLetters[i] = c
         THEN LowerLetters[CHOOSE i \in 1..26 : UpperLetters[i] = c]
         ELSE c

CharUpper(c) ==
    IF IsLower(c)
    THEN UpperLetters[CHOOSE i \in 1..26 : LowerLetters[i] = c]
    ELSE c

\* city.lower()
StrLower(s) == [i \in 1..Len(s) |-> CharLower(s[i])]

\* faulty variant: only the first character is changed, the rest is kept as it was
Capitalize_FirstOnly(s) ==
    [i \in 1..Len(s) |-> IF i = 1 THEN CharUpper(s[i]) ELSE s[i]]

\* str.capitalize(): first character upper-cased, every other lower-cased
Capitalize(s) ==
    [i \in 1..Len(s) |-> IF i = 1 THEN CharUpper(s[i]) ELSE CharLower(s[i])]

-----------------------------------------------------------------------------
(* Module globals *)

\* the dict CITIES, in insertion order
CITIES ==
    << [key |-> <<"n","e","w","y","o","r","k">>,
        name |-> <<"N","e","w"," ","Y","o","r","k">>],
       [key |-> <<"s","y","d","n","e","y">>,
        name |-> <<"S","y","d","n","e","y">>],
       [key |-> <<"c","a","p","e","t","o","w","n">>,
        name |-> <<"C","a","p","e"," ","T","o","w","n">>],
       [key |-> <<"b","a","n","g","k","o","k">>,
        name |-> <<"B","a","n","g","k","o","k">>] >>

BASE_URL == "http://api.openweathermap.org/data/2.5/weather"

\* the timeout argument of requests.get
TIMEOUT == 10

\* city_lower in CITIES
InCities(k) == \E i \in 1..Len(CITIES) : CITIES[i].key = k

\* faulty variant: the lower-cased request key is used as the city name
LookupName_Key(k) == k

\* CITIES[city_lower]
LookupName(k) == CITIES[CHOOSE i \in 1..Len(CITIES) : CITIES[i].key = k].name

\* faulty variant: list(CITIES.values())
CityKeys_Names == [i \in 1..Len(CITIES) |-> CITIES[i].name]

\* list(CITIES.keys())
CityKeys == [i \in 1..Len(CITIES) |-> CITIES[i].key]

\* faulty variant: `not API_KEY` written as `API_KEY is None`
KeyMissing_NoneOnly(k) == k.t = "none"

\* not API_KEY
KeyMissing(k) == k.t = "none" \/ (k.t = "str" /\ Len(k.v) = 0)

-----------------------------------------------------------------------------
(* round(x, 1) on a float.  The provider's decimal d = a/100 is first      *)
(* parsed to the nearest IEEE-754 double; round() then rounds that         *)
(* double's exact value to one decimal, ties to even.  A decimal ending in *)
(* 5 hundredths is therefore rounded up or down according to the side on   *)
(* which its double lies, found here by binary long division.              *)

RECURSIVE BitLen(_)
BitLen(n) == IF n = 0 THEN 0 ELSE 1 + BitLen(n \div 2)

\* Sign of (double - exact) for the fraction f/100, of which bitsLeft more
\* mantissa bits are kept; lastBit is the last bit kept so far, started says
\* whether the leading one bit has been seen.
RECURSIVE FloatErr(_, _, _, _)
FloatErr(f, bitsLeft, lastBit, started) ==
    IF f = 0 THEN 0
    ELSE IF bitsLeft = 0
         THEN IF 2 * f > 100 THEN 1
              ELSE IF 2 * f < 100 THEN -1
              ELSE IF lastBit = 1 THEN 1 ELSE -1
         ELSE LET b == IF 2 * f >= 100 THEN 1 ELSE 0
                  g == 2 * f - 100 * b
              IN  IF ~started /\ b = 0
                  THEN FloatErr(g, bitsLeft, 0, FALSE)
                  ELSE FloatErr(g, bitsLeft - 1, b, TRUE)

\* the double nearest to a/100 (a >= 0) compared with a/100: -1, 0 or 1
DoubleSide(a) ==
    FloatErr(a % 100, 53 - BitLen(a \div 100), (a \div 100) % 2, a >= 100)

\* faulty variant: the second decimal is cut off instead of rounded
Round1_Trunc(h) ==
    (IF h < 0 THEN -1 ELSE 1) * (Abs(h) \div 10) * 10

\* round(h/100, 1), in hundredths
Round1(h) ==
    LET a == Abs(h)
        q == a \div 10
        r == a % 10
        side == DoubleSide(a)
        up == IF r > 5 THEN TRUE
              ELSE IF r < 5 THEN FALSE
              ELSE IF side > 0 THEN TRUE
              ELSE IF side < 0 THEN FALSE
              ELSE q % 2 = 1
    IN  (IF h < 0 THEN -1 ELSE 1) * (q + (IF up THEN 1 ELSE 0)) * 10

-----------------------------------------------------------------------------
(* The expressions of the weather_data dict display.  Each operator takes  *)
(* the result of its operand: an operand that raised raises the same.      *)

\* x[k] for a str key k
GetItem(x, k) ==
    IF ~x.ok THEN x
    ELSE IF x.v.t = "dict"
    THEN IF k \in DOMAIN x.v.v THEN Ok(x.v.v[k]) ELSE Raise("KeyError")
    ELSE Raise("TypeError")

\* x[0]
GetIndex0(x) ==
    IF ~x.ok THEN x
    ELSE CASE x.v.t = "list" ->
                IF Len(x.v.v) > 0 THEN Ok(x.v.v[1]) ELSE Raise("IndexError")
           [] x.v.t = "str" ->
                IF Len(x.v.v) > 0 THEN Ok(PyStr(<<x.v.v[1]>>))
                ELSE Raise("IndexError")
           [] x.v.t = "dict" -> Raise("KeyError")
           [] OTHER -> Raise("TypeError")

\* round(x, 1)
PyRound1(x) ==
    IF ~x.ok THEN x
    ELSE CASE x.v.t = "float" -> Ok(PyFloat(Round1(x.v.v)))
           [] x.v.t = "int" -> x
           [] OTHER -> Raise("TypeError")

\* x.capitalize()
PyCapitalize(x) ==
    IF ~x.ok THEN x
    ELSE IF x.v.t = "str" THEN Ok(PyStr(Capitalize(x.v.v)))
    ELSE Raise("AttributeError")

\* the dict display weather_data = {...}, its values evaluated in order
WeatherData(name, data) ==
    LET temperature == PyRound1(GetItem(GetItem(Ok(data), "main"), "temp"))
        description ==
            PyCapitalize(GetItem(GetIndex0(GetItem(Ok(data), "weather")),
                                 "description"))
        humidity == GetItem(GetItem(Ok(data), "main"), "humidity")
        wind_speed == PyRound1(GetItem(GetItem(Ok(data), "wind"), "speed"))
    IN  IF ~temperature.ok THEN temperature
        ELSE IF ~description.ok THEN description
        ELSE IF ~humidity.ok THEN humidity
        ELSE IF ~wind_speed.ok THEN wind_speed
        ELSE Ok([city |-> PyStr(name),
                 temperature |-> temperature.v,
                 description |-> description.v,
                 humidity |-> humidity.v,
                 wind_speed |-> wind_speed.v])

-----------------------------------------------------------------------------
(* Exceptions: the classes the except clauses name, and the classes        *)
(* requests and the weather_data expressions raise.                        *)

Bases(c) ==
    CASE c = "ConnectTimeout" -> {"ConnectionError", "Timeout"}
      [] c = "ReadTimeout" -> {"Timeout"}
      [] c = "Timeout" -> {"RequestException"}
      [] c = "ConnectionError" -> {"RequestException"}
      [] c = "SSLError" -> {"ConnectionError"}
      [] c = "ProxyError" -> {"ConnectionError"}
      [] c = "ChunkedEncodingError" -> {"RequestException"}
      [] c = "ContentDecodingError" -> {"RequestException"}
      [] c = "TooManyRedirects" -> {"RequestException"}
      [] c = "HTTPError" -> {"RequestException"}
      [] c = "InvalidJSONError" -> {"RequestException"}
      [] c = "requests.JSONDecodeError" ->
            {"InvalidJSONError", "json.JSONDecodeError"}
      [] c = "json.JSONDecodeError" -> {"ValueError"}
      [] c = "RequestException" -> {"OSError"}
      [] c = "KeyError" -> {"LookupError"}
      [] c = "IndexError" -> {"LookupError"}
      [] OTHER -> {}

RECURSIVE Ancestors(_)
Ancestors(c) == {c} \cup UNION {Ancestors(b) : b \in Bases(c)}

\* isinstance(e, cls) for an exception e of class c
IsInstance(c, cls) == cls \in Ancestors(c)

\* jsonify({'error': ..., 'message': ...}), status
ErrorResponse(status, error, message) ==
    [status |-> status, json |-> [error |-> error, message |-> message]]

\* No except clause matches: the exception leaves get_weather, and the
\* framework answers 500 with its own, non-JSON, error page.
Unhandled(exc) == [status |-> 500, html |-> exc]

\* faulty variant: the RequestException clause is written first
HandleException_NetworkFirst(exc, status_code) ==
    IF IsInstance(exc, "RequestException")
    THEN ErrorResponse(502, "Network Error",
                       "Failed to connect to OpenWeatherMap API")
    ELSE IF IsInstance(exc, "Timeout")
    THEN ErrorResponse(504, "Timeout",
                       "Request to OpenWeatherMap API timed out")
    ELSE IF IsInstance(exc, "HTTPError")
    THEN ErrorResponse(502, "API Error",
             <<"OpenWeatherMap API returned an error: ", status_code>>)
    ELSE IF IsInstance(exc, "KeyError") \/ IsInstance(exc, "ValueError")
    THEN ErrorResponse(502, "Data Error",
                       "Unexpected response format from OpenWeatherMap API")
    ELSE Unhandled(exc)

\* the except clauses, tried in order; status_code is e.response.status_code
HandleException(exc, status_code) ==
    IF IsInstance(exc, "Timeout")
    THEN ErrorResponse(504, "Timeout",
                       "Request to OpenWeatherMap API timed out")
    ELSE IF IsInstance(exc, "HTTPError")
    THEN ErrorResponse(502, "API Error",
             <<"OpenWeatherMap API returned an error: ", status_code>>)
    ELSE IF IsInstance(exc, "RequestException")
    THEN ErrorResponse(502, "Network Error",
                       "Failed to connect to OpenWeatherMap API")
    ELSE IF IsInstance(exc, "KeyError") \/ IsInstance(exc, "ValueError")
    THEN ErrorResponse(502, "Data Error",
                       "Unexpected response format from OpenWeatherMap API")
    ELSE Unhandled(exc)

-----------------------------------------------------------------------------
(* The two handlers. *)

\* jsonify({'status': ..., 'service': ..., 'available_cities': ...})
HomeResponse ==
    [status |-> 200,
     json |-> [status |-> "running",
               service |-> "Weather Backend API",
               available_cities |-> CityKeys]]

\* faulty variant: the credential is checked before the city
Precheck_KeyFirst(c, key) ==
    IF KeyMissing(key)
    THEN [proceed |-> FALSE,
          response |-> ErrorResponse(500, "Configuration error",
                           "OpenWeatherMap API key not configured")]
    ELSE IF ~InCities(StrLower(c))
    THEN [proceed |-> FALSE,
          response |-> ErrorResponse(400, "Invalid city",
                           <<"City ", c, " not supported. Available cities: ",
                             CityKeys>>)]
    ELSE [proceed |-> TRUE, response |-> PyNone]

\* the two early returns of get_weather
Precheck(c, key) ==
    IF ~InCities(StrLower(c))
    THEN [proceed |-> FALSE,
          response |-> ErrorResponse(400, "Invalid city",
                           <<"City ", c, " not supported. Available cities: ",
                             CityKeys>>)]
    ELSE IF KeyMissing(key)
    THEN [proceed |-> FALSE,
          response |-> ErrorResponse(500, "Configuration error",
                           "OpenWeatherMap API key not configured")]
    ELSE [proceed |-> TRUE, response |-> PyNone]

\* requests.get(BASE_URL, params=params, timeout=10)
Params(name, key) ==
    [q |-> name, url |-> BASE_URL, appid |-> key, units |-> "metric",
     timeout |-> TIMEOUT]

\* What requests.get produced: an exception (kind "raise"), or a response
\* object (kind "response") with its status code and what its json() gives.
NoReply == [exc |-> "", status |-> 0, json |-> Raise(""), kind |-> "none"]
Raised(e) == [exc |-> e, status |-> 0, json |-> Raise(""), kind |-> "raise"]
Responded(s, j) == [exc |-> "", status |-> s, json |-> j, kind |-> "response"]

\* the body of the try statement: Ok(weather_data) or the exception raised
TryBlock(name, reply) ==
    IF reply.kind = "raise" THEN Raise(reply.exc)
    ELSE IF reply.status >= 400 /\ reply.status < 600 THEN Raise("HTTPError")
    ELSE IF ~reply.json.ok THEN reply.json
    ELSE WeatherData(name, reply.json.v)

\* the try statement with its except clauses
TryExcept(name, reply) ==
    LET r == TryBlock(name, reply)
    IN  IF r.ok THEN [status |-> 200, json |-> r.v]
        ELSE HandleException(r.exc, reply.status)

-----------------------------------------------------------------------------
(* The inputs explored: request keys, credentials, provider outcomes. *)

SetUpper(key, S) ==
    [i \in 1..Len(key) |-> IF i \in S THEN CharUpper(key[i]) ELSE key[i]]

\* the casings of a registry key with at most MaxUpper upper-case letters,
\* and the key in upper case
Casings(key) ==
    {SetUpper(key, S) :
        S \in {T \in SUBSET (1..Len(key)) : Cardinality(T) <= MaxUpper}}
    \cup {SetUpper(key, 1..Len(key))}

SupportedInputs ==
    UNION {Casings(CITIES[i].key) : i \in 1..Len(CITIES)}
    \cup { <<"N","e","w","Y","o","r","k">>,
           <<"C","a","p","e","T","o","w","n">>,
           <<"b","a","n","g",KelvinSign,"o","k">> }

UnsupportedInputs ==
    { <<"p","a","r","i","s">>,
      <<"P","A","R","I","S">>,
      <<"s","y","d","n","e">>,
      <<"s","y","d","n","e","y","s">>,
      <<"n","e","w"," ","y","o","r","k">>,
      <<"N","e","w"," ","Y","o","r","k">>,
      <<"C","a","p","e"," ","T","o","w","n">>,
      <<"b","a","n","g","k","o","k","1">> }

CityInputs == SupportedInputs \cup UnsupportedInputs

\* os.getenv('OPENWEATHER_API_KEY'): unset, set to the empty string, set
ApiKeys == {PyNone, PyStr(<<>>), PyStr(<<"k","e","y">>)}

\* exceptions requests.get raises itself
TransportExceptions ==
    {"ConnectTimeout", "ReadTimeout", "ConnectionError", "SSLError",
     "ProxyError", "ChunkedEncodingError", "ContentDecodingError",
     "TooManyRedirects"}

\* status codes for which raise_for_status raises
ErrorStatuses == {400, 401, 404, 429, 500, 503}

\* status codes of answers whose body is not JSON
NoJsonStatuses == {200, 204, 304}

\* what response.json() raises on a body that is not JSON: requests'
\* own class since requests 2.27, the json module's class before
DecodeExceptions == {"requests.JSONDecodeError", "json.JSONDecodeError"}

\* a JSON member that is not there
Absent == [t |-> "absent", v |-> 0]

\* a JSON object of the members of `all` that are there
MkDict(all) == PyDict([k \in {j \in DOMAIN all : all[j].t # "absent"} |-> all[k]])

MkMain(temp, hum) ==
    MkDict([humidity |-> hum, temp |-> temp, pressure |-> PyInt(1012)])
MkCondition(desc) == MkDict([description |-> desc, id |-> PyInt(500)])
MkWind(speed) == MkDict([speed |-> speed, deg |-> PyInt(200)])
MkBody(main, weather, wind) ==
    MkDict([name |-> PyStr(<<"E","c","h","o">>),
            main |-> main, weather |-> weather, wind |-> wind])

LightRain == <<"l","i","g","h","t"," ","r","a","i","n">>

\* the provider answer of the specification's example
ExampleBody ==
    MkBody(MkMain(PyFloat(1504), PyInt(72)),
           PyList(<<MkCondition(PyStr(LightRain))>>),
           MkWind(PyFloat(326)))

\* well-formed answers over the range of temperatures and wind speeds
NumericBodies ==
    {MkBody(MkMain(PyFloat(h), PyInt(72)),
            PyList(<<MkCondition(PyStr(LightRain))>>),
            MkWind(PyFloat(326))) : h \in -MaxHundredths..MaxHundredths}
    \cup
    {MkBody(MkMain(PyFloat(1504), PyInt(72)),
            PyList(<<MkCondition(PyStr(LightRain))>>),
            MkWind(PyFloat(w))) : w \in 0..MaxHundredths}

DescAlphabet == {"r", "R", "a", " "}

DescStrings ==
    UNION {[1..n -> DescAlphabet] : n \in 0..MaxDescLen}

\* well-formed answers over the descriptions; a second condition follows
DescBodies ==
    {MkBody(MkMain(PyInt(15), PyInt(40)),
            PyList(<<MkCondition(PyStr(d)), MkCondition(PyStr(LightRain))>>),
            MkWind(PyInt(3))) : d \in DescStrings}

AStr == PyStr(<<"1","5">>)

MainVariants ==
    {MkMain(t, h) :
        t \in {PyFloat(1504), Absent, AStr},
        h \in {PyInt(72), Absent, AStr}}
    \cup {Absent, PyNone, PyList(<<>>)}

WeatherVariants ==
    {PyList(<<MkCondition(d)>>) :
        d \in {PyStr(LightRain), Absent, PyInt(5), PyNone}}
    \cup {Absent, PyNone, PyList(<<>>), PyList(<<PyStr(LightRain)>>),
          PyStr(LightRain), MkCondition(PyStr(LightRain))}

WindVariants ==
    {MkWind(s) : s \in {PyFloat(326), Absent, AStr}}
    \cup {Absent, PyNone}

\* answers with members missing, empty or of another type
StructBodies ==
    {MkBody(m, w, d) :
        m \in MainVariants, w \in WeatherVariants, d \in WindVariants}
    \cup {PyNone, PyList(<<>>), PyStr(LightRain), PyInt(0)}

Bodies == {ExampleBody} \cup NumericBodies \cup DescBodies \cup StructBodies

-----------------------------------------------------------------------------
(* The state machine. *)

Init ==
    /\ API_KEY \in ApiKeys
    /\ pc = "idle"
    /\ route = "none"
    /\ city = <<>>
    /\ city_name = <<>>
    /\ outbound = <<>>
    /\ upstream = NoReply
    /\ responses = <<>>

\* GET /
Home ==
    /\ pc = "idle"
    /\ route' = "home"
    /\ responses' = Append(responses, HomeResponse)
    /\ pc' = "done"
    /\ UNCHANGED <<API_KEY, city, city_name, outbound, upstream>>

\* GET /weather/<city>, up to its return or to the call of requests.get
GetWeather(c) ==
    /\ pc = "idle"
    /\ route' = "weather"
    /\ city' = c
    /\ LET pre == Precheck(c, API_KEY)
       IN  IF pre.proceed
           THEN /\ city_name' = LookupName(StrLower(c))
                /\ outbound' = Append(outbound, Params(city_name', API_KEY))
                /\ pc' = "calling"
                /\ UNCHANGED responses
           ELSE /\ responses' = Append(responses, pre.response)
                /\ pc' = "done"
                /\ UNCHANGED <<city_name, outbound>>
    /\ UNCHANGED <<API_KEY, upstream>>

\* faulty variant: a failed call is issued again
Complete_Retry(reply) ==
    /\ pc = "calling"
    /\ upstream' = reply
    /\ IF TryBlock(city_name, reply).ok
       THEN /\ responses' = Append(responses, TryExcept(city_name, reply))
            /\ pc' = "done"
            /\ UNCHANGED outbound
       ELSE /\ outbound' = Append(outbound, Params(city_name, API_KEY))
            /\ UNCHANGED <<responses, pc>>
    /\ UNCHANGED <<API_KEY, route, city, city_name>>

\* requests.get returns or raises, and get_weather runs to its return
Complete(reply) ==
    /\ pc = "calling"
    /\ upstream' = reply
    /\ responses' = Append(responses, TryExcept(city_name, reply))
    /\ pc' = "done"
    /\ UNCHANGED <<API_KEY, route, city, city_name, outbound>>

\* the call times out or fails in transport
ProviderFails == \E e \in TransportExceptions : Complete(Raised(e))

\* the provider answers with an error status
ProviderErrorStatus ==
    \E s \in ErrorStatuses : Complete(Responded(s, Ok(PyNone)))

\* the provider answers with a body that is not JSON
ProviderBadJson ==
    \E s \in NoJsonStatuses, e \in DecodeExceptions :
        Complete(Responded(s, Raise(e)))

\* the provider answers 200 with a JSON body
ProviderAnswers == \E data \in Bodies : Complete(Responded(200, Ok(data)))

\* the response is sent; the handler's locals are gone
Return ==
    /\ pc = "done"
    /\ pc' = "idle"
    /\ route' = "none"
    /\ city' = <<>>
    /\ city_name' = <<>>
    /\ outbound' = <<>>
    /\ upstream' = NoReply
    /\ responses' = <<>>
    /\ UNCHANGED API_KEY

Request == \E c \in CityInputs : GetWeather(c)

Next ==
    \/ Home
    \/ Request
    \/ ProviderFails
    \/ ProviderErrorStatus
    \/ ProviderAnswers
    \/ ProviderBadJson
    \/ Return

Spec == Init /\ [][Next]_vars

-----------------------------------------------------------------------------
(* Vocabulary of the properties. *)

\* the registry as the interface section states it
RegistryKey(k) ==
    k \in { <<"n","e","w","y","o","r","k">>, <<"s","y","d","n","e","y">>,
            <<"c","a","p","e","t","o","w","n">>, <<"b","a","n","g","k","o","k">> }

DisplayName(k) ==
    CASE k = <<"n","e","w","y","o","r","k">> -> <<"N","e","w"," ","Y","o","r","k">>
      [] k = <<"s","y","d","n","e","y">> -> <<"S","y","d","n","e","y">>
      [] k = <<"c","a","p","e","t","o","w","n">> ->
            <<"C","a","p","e"," ","T","o","w","n">>
      [] k = <<"b","a","n","g","k","o","k">> -> <<"B","a","n","g","k","o","k">>

Supported(c) == RegistryKey(StrLower(c))

CredentialAbsent == API_KEY.t = "none" \/ API_KEY.v = <<>>

\* a weather-lookup request has run to its end
LookupDone == pc = "done" /\ route = "weather"

\* the response of the request that has run to its end
Response == responses[1]

\* a structured {error, message} body of the given kind and status
IsError(r, status, error) ==
    /\ r.status = status
    /\ "json" \in DOMAIN r
    /\ DOMAIN r.json = {"error", "message"}
    /\ r.json.error = error

IsWeatherResult(r) ==
    /\ r.status = 200
    /\ "json" \in DOMAIN r
    /\ "city" \in DOMAIN r.json

\* the provider answered with a success status and a JSON body
Answered == upstream.kind = "response" /\ upstream.status = 200 /\ upstream.json.ok

Data == upstream.json.v

IsNumber(x) == x.t \in {"int", "float"}

HasMember(x, k) == x.t = "dict" /\ k \in DOMAIN x.v

\* the answer exposes main.temp, main.humidity, weather[0].description and
\* wind.speed, each of its expected type
WellFormed(d) ==
    /\ HasMember(d, "main")
    /\ HasMember(d.v["main"], "temp") /\ IsNumber(d.v["main"].v["temp"])
    /\ HasMember(d.v["main"], "humidity")
    /\ d.v["main"].v["humidity"].t = "int"
    /\ HasMember(d, "weather")
    /\ d.v["weather"].t = "list" /\ Len(d.v["weather"].v) > 0
    /\ HasMember(d.v["weather"].v[1], "description")
    /\ d.v["weather"].v[1].v["description"].t = "str"
    /\ HasMember(d, "wind")
    /\ HasMember(d.v["wind"], "speed") /\ IsNumber(d.v["wind"].v["speed"])

\* r is x rounded to one decimal place: a whole number of tenths, at most
\* half a tenth away (an integer is its own rounding)
RoundedTo1(r, x) ==
    \/ x.t = "int" /\ r = x
    \/ x.t = "float" /\ r.t = "float" /\ r.v % 10 = 0 /\ Abs(r.v - x.v) <= 5

-----------------------------------------------------------------------------
(* C1: a request whose lower-cased key is not a registry key ends with     *)
(* 400 Invalid city, with or without a credential, and without the         *)
(* provider being asked.                                                   *)
C1_InvalidCityFirst ==
    (LookupDone /\ ~Supported(city)) =>
        /\ Len(responses) = 1
        /\ IsError(Response, 400, "Invalid city")
        /\ Len(outbound) = 0

C1_Witness ==
    /\ LookupDone /\ ~Supported(city) /\ CredentialAbsent
    /\ Response.status = 400

(* C2: a request for a supported key, in any casing, ends with 500         *)
(* Configuration error when the credential is unset or empty.              *)
C2_ConfigurationError ==
    (LookupDone /\ Supported(city) /\ CredentialAbsent) =>
        /\ Len(responses) = 1
        /\ IsError(Response, 500, "Configuration error")
        /\ upstream.kind = "none"

C2_Witness ==
    /\ LookupDone /\ Supported(city) /\ city # StrLower(city)
    /\ API_KEY = PyStr(<<>>)
    /\ Response.status = 500

(* C3: every casing of a supported key resolves to the registry's display  *)
(* name of that key, and a successful result carries that name as its      *)
(* city, not the request key and not the name the provider sent.           *)
C3_CityIsDisplayName ==
    /\ (route = "weather" /\ pc = "calling") =>
            /\ Supported(city)
            /\ city_name = DisplayName(StrLower(city))
    /\ (LookupDone /\ IsWeatherResult(Response)) =>
            /\ Response.json.city = PyStr(DisplayName(StrLower(city)))
            /\ HasMember(Data, "name") =>
                    Response.json.city # Data.v["name"]

C3_Witness ==
    /\ LookupDone /\ IsWeatherResult(Response)
    /\ city = <<"N","e","w","Y","o","r","k">>
    /\ Response.json.city.v = <<"N","e","w"," ","Y","o","r","k">>
    /\ HasMember(Data, "name")

C5_DataError ==
    (/\ LookupDone
     /\ upstream.kind = "response"
     /\ upstream.status >= 200 /\ upstream.status < 300
     /\ (upstream.json.ok => ~WellFormed(Data))) =>
        IsError(Response, 502, "Data Error")

(* C6: a weather-lookup request ends with exactly one response, which is a *)
(* 200 weather result or a structured error of one of the six kinds with   *)
(* its status; no failure leaves the handler unclassified.                 *)
C6_Classified ==
    LookupDone =>
        /\ Len(responses) = 1
        /\ \/ IsWeatherResult(Response)
           \/ IsError(Response, 400, "Invalid city")
           \/ IsError(Response, 500, "Configuration error")
           \/ IsError(Response, 504, "Timeout")
           \/ IsError(Response, 502, "API Error")
           \/ IsError(Response, 502, "Network Error")
           \/ IsError(Response, 502, "Data Error")

\* what C7 says of a result with the given name for the wind speed
SuccessResult(windField) ==
    (LookupDone /\ Answered /\ WellFormed(Data)) =>
        /\ Response.status = 200
        /\ DOMAIN Response.json =
              {"city", "temperature", "description", "humidity", windField}
        /\ Response.json.humidity = Data.v["main"].v["humidity"]
        /\ RoundedTo1(Response.json.temperature, Data.v["main"].v["temp"])
        /\ RoundedTo1(Response.json[windField], Data.v["wind"].v["speed"])
        /\ (Data = ExampleBody /\ StrLower(city) = <<"s","y","d","n","e","y">>) =>
              /\ Response.json.city = PyStr(<<"S","y","d","n","e","y">>)
              /\ Response.json.temperature = PyFloat(1500)
              /\ Response.json.description =
                    PyStr(<<"L","i","g","h","t"," ","r","a","i","n">>)
              /\ Response.json.humidity = PyInt(72)
              /\ Response.json[windField] = PyFloat(330)

(* C7, as stated: a success is 200 with exactly the fields city,           *)
(* temperature, description, humidity and windSpeed, humidity unmodified,  *)
(* temperature and wind speed rounded to one decimal place.                *)
C7_Original == SuccessResult("windSpeed")

(* C7, amended: the same, the fifth field being named wind_speed.          *)
C7_SuccessResult == SuccessResult("wind_speed")

C7_Witness ==
    /\ LookupDone /\ Answered /\ Data = ExampleBody
    /\ StrLower(city) = <<"s","y","d","n","e","y">>
    /\ Response.status = 200

\* the first condition's description, when the result is a success
FirstDescription == Data.v["weather"].v[1].v["description"].v

(* C8, as stated: the result's description is the first condition's        *)
(* description with its first letter upper-cased and every other character *)
(* unchanged.                                                              *)
C8_Original ==
    (LookupDone /\ Answered /\ WellFormed(Data)) =>
        /\ Len(Response.json.description.v) = Len(FirstDescription)
        /\ \A i \in 1..Len(FirstDescription) :
              Response.json.description.v[i] =
                  IF i = 1 THEN CharUpper(FirstDescription[i])
                  ELSE FirstDescription[i]

(* C8, amended: the result's description is the first condition's          *)
(* description with its first letter upper-cased and every other letter    *)
(* lower-cased.                                                            *)
C8_Capitalized ==
    (LookupDone /\ Answered /\ WellFormed(Data)) =>
        /\ Len(Response.json.description.v) = Len(FirstDescription)
        /\ \A i \in 1..Len(FirstDescription) :
              Response.json.description.v[i] =
                  IF i = 1 THEN CharUpper(FirstDescription[i])
                  ELSE CharLower(FirstDescription[i])

C8_Witness ==
    /\ LookupDone /\ Answered /\ WellFormed(Data)
    /\ Len(FirstDescription) >= 2
    /\ IsUpper(FirstDescription[2])
    /\ Response.json.description.v[2] = CharLower(FirstDescription[2])

(* C9: the health operation answers 200 with status, service and           *)
(* available_cities, the four lower-case keys in registry order, whatever  *)
(* the credential, and asks the provider nothing.                          *)
C9_Health ==
    (pc = "done" /\ route = "home") =>
        /\ Len(responses) = 1
        /\ Response.status = 200
        /\ DOMAIN Response.json = {"status", "service", "available_cities"}
        /\ Response.json.available_cities =
              << <<"n","e","w","y","o","r","k">>, <<"s","y","d","n","e","y">>,
                 <<"c","a","p","e","t","o","w","n">>,
                 <<"b","a","n","g","k","o","k">> >>
        /\ Len(outbound) = 0
        /\ upstream.kind = "none"

C9_Witness ==
    /\ pc = "done" /\ route = "home" /\ CredentialAbsent
    /\ Response.status = 200

(* C10: a weather-lookup request makes at most one provider call: one,     *)
(* carrying the display name, the credential and metric units, when the    *)
(* key is supported and the credential configured, none otherwise; a       *)
(* failed call is not followed by a second.                                *)
C10_OneCall ==
    /\ Len(outbound) <= 1
    /\ (route = "weather" /\ pc \in {"calling", "done"}) =>
            (Len(outbound) = 1 <=> (Supported(city) /\ ~CredentialAbsent))
    /\ Len(outbound) = 1 =>
            /\ outbound[1].q = DisplayName(StrLower(city))
            /\ outbound[1].appid = API_KEY
            /\ outbound[1].units = "metric"
    /\ (LookupDone /\ (\/ IsError(Response, 400, "Invalid city")
                       \/ IsError(Response, 500, "Configuration error"))) =>
            Len(outbound) = 0

C10_Witness ==
    /\ LookupDone /\ Len(outbound) = 1
    /\ upstream.kind = "raise"
    /\ ~IsWeatherResult(Response)

=============================================================================
